---- MODULE Spec2Model ----
(***************************************************************************)
(* GitAgent: the session execution context.                                *)
(*                                                                         *)
(*   - the Conversation Store (src/database/database.py): the turn log     *)
(*     `conversation`, the session table `session_chat`, and the           *)
(*     statements of save_conversation run by concurrent workers, each in  *)
(*     its own PostgreSQL transaction (READ COMMITTED);                    *)
(*   - history replay (src/agents/get_chat_history.py);                    *)
(*   - the Session Context of one turn (src/agents/schemas.py) and the     *)
(*     remote actions that append to its audit trail and read or write     *)
(*     its tree cache (src/tools/*.py).                                    *)
(*                                                                         *)
(* Strings that the code orders (timestamps, paths) are sequences of       *)
(* character codes, ordered as Python orders str: by code point.           *)
(***************************************************************************)
EXTENDS Naturals, Integers, Sequences, FiniteSets, TLC

\* ------------------------------------------------------------- bounds
\* Turn identifiers the store can hand out (caps the number of saved turns).
MaxTurns == 2
\* Remote-action invocations the agent makes in one turn.
MaxCalls == 2

\* Worker requests running concurrently against the store.
Procs == {"w1", "w2"}
Sessions == {"s1", "s2"}
\* request.session_id is Optional: the absent value.
NoSession == "None"
Users == {"alice", "bob"}
\* Timestamp strings "10" and "2": as str "10" < "2", against their numeric order.
Timestamps == {<<49, 48>>, <<50>>}
\* timestamp=None of save_conversation (not a string).
NoTimestamp == <<0>>
\* Readings of the database clock (CURRENT_TIMESTAMP) and of datetime.now().
Clock == {<<50>>}
Queries == {"q1"}
Outputs == {"out1"}
ConvIds == 1..MaxTurns

EmptyMap == [x \in {} |-> x]

VARIABLES
  connection_pool,   \* database.connection_pool: FALSE is None, TRUE is the open pool
  conversation,      \* committed rows of table conversation (the turn log)
  session_chat,      \* committed rows of table session_chat: session_id -> row
  row_lock,          \* session_chat row locks: session_id -> the worker whose open transaction holds it, or "free"
  pc,                \* each worker's position inside save_conversation
  txn,               \* each worker's open transaction: arguments and uncommitted writes
  ret,               \* the outcome of the store call that ended last
  returned           \* history variable: <<session_id, conv_id>> of every save_conversation return, in order

storeVars == <<connection_pool, conversation, session_chat, row_lock, pc, txn, ret, returned>>

\* The Session Context (UserContext) of each worker's request, and what its
\* agent sees.
VARIABLES
  tool_executions,   \* UserContext.tool_executions of each worker: the audit trail
  repos_cache,       \* UserContext.repos_cache of each worker: full name -> snapshot
  result,            \* what the last remote action of each worker returned to the agent
  invocations        \* history variable: the tools each worker's agent invoked, in order

ctxVars == <<tool_executions, repos_cache, result, invocations>>

\* The requests in flight (process_agent_query) and the connection pool's
\* bookkeeping.
VARIABLES
  request,           \* each worker's request: what it carried, how far it got, its response
  used,              \* connection_pool._used: the number of checked-out connections
  pool_call          \* the store operation that ended last: which, how it went, `used` before it

appVars == <<request, used, pool_call>>

\* ------------------------------------------------------------- strings
\* Python str comparison a < b, on sequences of character codes.
RECURSIVE StrLess(_, _)
StrLess(a, b) ==
  IF b = <<>> THEN FALSE
  ELSE IF a = <<>> THEN TRUE
  ELSE IF Head(a) # Head(b) THEN Head(a) < Head(b)
  ELSE StrLess(Tail(a), Tail(b))

Range(f) == {f[i] : i \in DOMAIN f}

\* The elements of a finite set of naturals in ascending order.
RECURSIVE AscSeq(_)
AscSeq(S) ==
  IF S = {} THEN <<>>
  ELSE LET m == CHOOSE x \in S : \A y \in S : x <= y
       IN <<m>> \o AscSeq(S \ {m})

\* ------------------------------------------------------------- tables
NoTxn == [session_id |-> NoSession, timestamp |-> NoTimestamp, user_query |-> "",
          assistant_output |-> "", conv_id |-> 0, inserted |-> FALSE,
          updated |-> FALSE, new_row |-> EmptyMap]
\* The outcome of a store call: op names the call, ok is FALSE when it raised or
\* reported failure, note says which way it went ("inserted"/"conflict" for
\* create_session, the position reached for a call cut short by a kill).
NoRet == [op |-> "none", worker |-> "", session_id |-> NoSession, ok |-> TRUE,
          note |-> "", conv_id |-> 0,
          history |-> EmptyMap, blocks |-> <<>>]

\* session_chat row written by INSERT INTO session_chat (session_id, username):
\* the other columns take the table's defaults (CURRENT_TIMESTAMP, '{}').
NewSessionRow(username, now) ==
  [username |-> username, created_at |-> now, updated_at |-> now, history |-> EmptyMap]

\* A turn log without the reference to session_chat: any session_id is accepted.
conversation_session_unreferenced(s) == TRUE

\* conversation.session_id references session_chat(session_id), NOT NULL:
\* "session_id: Session ID (must already exist in session_chat)".
conversation_session_fk(s) == s \in DOMAIN session_chat

\* conv_id is generated by the table's default at INSERT: a value no row of the
\* log, committed or pending, carries.
FreshConvIds ==
  ConvIds \ ({r.conv_id : r \in conversation}
             \cup {txn[p].conv_id : p \in {q \in Procs : txn[q].inserted}})

\* jsonb a || b: the keys of both, b's value where both have the key.
JsonbConcat(a, b) ==
  [k \in DOMAIN a \cup DOMAIN b |-> IF k \in DOMAIN b THEN b[k] ELSE a[k]]

\* conversation_data of save_conversation.
ConversationData(t) ==
  [timestamp |-> t.timestamp, user_query |-> t.user_query,
   assistant_output |-> t.assistant_output]

ConversationRow(t) ==
  [conv_id |-> t.conv_id, session_id |-> t.session_id, timestamp |-> t.timestamp,
   user_query |-> t.user_query, assistant_output |-> t.assistant_output]

\* Locks of worker p released at the end of its transaction.
ReleaseLocks(p) == [s \in Sessions |-> IF row_lock[s] = p THEN "free" ELSE row_lock[s]]

\* ------------------------------------------------------------- store operations
\* init_database: open the pool and run db.sql (CREATE TABLE IF NOT EXISTS).
InitDatabase ==
  /\ ~connection_pool
  /\ connection_pool' = TRUE
  /\ UNCHANGED <<conversation, session_chat, row_lock, pc, txn, ret, returned, ctxVars>>

\* create_session: INSERT ... ON CONFLICT (session_id) DO NOTHING; commit; True.
\* With no pool, or when the statement raises, it returns False and writes nothing.
CreateSessionUpsert(p, s, username) ==
  /\ pc[p] = "idle"
  /\ connection_pool
  /\ \E now \in Clock :
       session_chat' = [x \in DOMAIN session_chat \cup {s} |->
                          IF x = s THEN NewSessionRow(username, now) ELSE session_chat[x]]
  /\ ret' = [NoRet EXCEPT !.worker = p, !.session_id = s, !.op = "create_session", !.ok = TRUE,
                 !.note = IF s \in DOMAIN session_chat THEN "conflict" ELSE "inserted"]
  /\ UNCHANGED <<connection_pool, conversation, row_lock, pc, txn, returned, ctxVars>>

CreateSession(p, s, username) ==
  /\ pc[p] = "idle"
  /\ \/ /\ connection_pool
        /\ \E now \in Clock :
             session_chat' =
               IF s \in DOMAIN session_chat THEN session_chat
               ELSE [x \in DOMAIN session_chat \cup {s} |->
                       IF x = s THEN NewSessionRow(username, now) ELSE session_chat[x]]
        /\ ret' = [NoRet EXCEPT !.worker = p, !.session_id = s, !.op = "create_session", !.ok = TRUE,
                       !.note = IF s \in DOMAIN session_chat THEN "conflict" ELSE "inserted"]
     \/ /\ session_chat' = session_chat
        /\ ret' = [NoRet EXCEPT !.worker = p, !.session_id = s, !.op = "create_session", !.ok = FALSE]
  /\ UNCHANGED <<connection_pool, conversation, row_lock, pc, txn, returned, ctxVars>>

\* save_conversation up to cursor.execute("BEGIN"): the pool check, the default
\* timestamp, getconn, the start of the transaction.
SaveBegin(p, s, ts, q, out) ==
  /\ pc[p] = "idle"
  /\ connection_pool
  /\ \E now \in Clock :
       txn' = [txn EXCEPT ![p] =
                 [NoTxn EXCEPT !.session_id = s,
                               !.timestamp = IF ts = NoTimestamp THEN now ELSE ts,
                               !.user_query = q, !.assistant_output = out]]
  /\ pc' = [pc EXCEPT ![p] = "begun"]
  /\ ret' = NoRet
  /\ UNCHANGED <<connection_pool, conversation, session_chat, row_lock, returned, ctxVars>>

\* save_conversation called with no pool: raises "Database not initialized".
SaveNoPool(p) ==
  /\ pc[p] = "idle"
  /\ ~connection_pool
  /\ ret' = [NoRet EXCEPT !.worker = p, !.op = "save_conversation", !.ok = FALSE]
  /\ UNCHANGED <<connection_pool, conversation, session_chat, row_lock, pc, txn, returned, ctxVars>>

\* An except branch without its rollback: the pending writes of the
\* transaction reach the tables although the call raises.
SaveRollbackMissing(p) ==
  /\ conversation' =
       IF txn[p].inserted THEN conversation \cup {ConversationRow(txn[p])} ELSE conversation
  /\ session_chat' =
       IF txn[p].updated
       THEN [session_chat EXCEPT ![txn[p].session_id] = txn[p].new_row]
       ELSE session_chat
  /\ txn' = [txn EXCEPT ![p] = NoTxn]
  /\ row_lock' = ReleaseLocks(p)
  /\ pc' = [pc EXCEPT ![p] = "idle"]
  /\ ret' = [NoRet EXCEPT !.worker = p, !.op = "save_conversation", !.ok = FALSE]
  /\ UNCHANGED <<connection_pool, returned, ctxVars>>

\* The except branch of save_conversation: conn.rollback(); putconn; raise.
\* The uncommitted writes of the transaction are discarded.
SaveRollback(p) ==
  /\ txn' = [txn EXCEPT ![p] = NoTxn]
  /\ row_lock' = ReleaseLocks(p)
  /\ pc' = [pc EXCEPT ![p] = "idle"]
  /\ ret' = [NoRet EXCEPT !.worker = p, !.op = "save_conversation", !.ok = FALSE]
  /\ UNCHANGED <<connection_pool, conversation, session_chat, returned, ctxVars>>

\* INSERT INTO conversation ... RETURNING conv_id, inside the transaction: the
\* row is pending until commit. A session_id with no session_chat row violates
\* the foreign key: the statement raises and the except branch runs.
SaveInsertAutocommit(p) ==
  /\ pc[p] = "begun"
  /\ conversation_session_fk(txn[p].session_id)
  /\ \E id \in FreshConvIds :
       /\ txn' = [txn EXCEPT ![p].conv_id = id]
       /\ conversation' = conversation \cup {ConversationRow([txn[p] EXCEPT !.conv_id = id])}
  /\ pc' = [pc EXCEPT ![p] = "inserted"]
  /\ UNCHANGED <<connection_pool, session_chat, row_lock, ret, returned, ctxVars>>

SaveInsert(p) ==
  /\ pc[p] = "begun"
  /\ \/ /\ conversation_session_fk(txn[p].session_id)
        /\ \E id \in FreshConvIds :
             txn' = [txn EXCEPT ![p].conv_id = id, ![p].inserted = TRUE]
        /\ pc' = [pc EXCEPT ![p] = "inserted"]
        /\ UNCHANGED <<connection_pool, conversation, session_chat, row_lock, ret, returned, ctxVars>>
     \/ /\ ~conversation_session_fk(txn[p].session_id)
        /\ SaveRollback(p)

\* The history value the UPDATE statement assigns: history || {conv_id: data}.
MergedHistoryReplace(history, t) ==
  [k \in {t.conv_id} |-> ConversationData(t)]

MergedHistory(history, t) ==
  JsonbConcat(history, [k \in {t.conv_id} |-> ConversationData(t)])

\* An UPDATE that does not wait for the row: it merges into the version it
\* read although another transaction has a pending write to the row.
SaveUpdateNoLock(p) ==
  /\ pc[p] = "inserted"
  /\ LET s == txn[p].session_id IN
       IF s \in DOMAIN session_chat
       THEN /\ row_lock' = row_lock
            /\ txn' = [txn EXCEPT ![p].updated = TRUE,
                                  ![p].new_row =
                                     [session_chat[s] EXCEPT
                                        !.history = MergedHistory(session_chat[s].history, txn[p]),
                                        !.updated_at = txn[p].timestamp]]
       ELSE /\ row_lock' = row_lock
            /\ txn' = txn
  /\ pc' = [pc EXCEPT ![p] = "updated"]
  /\ UNCHANGED <<connection_pool, conversation, session_chat, ret, returned, ctxVars>>

\* UPDATE session_chat SET history = history || %s::jsonb, updated_at = %s
\* WHERE session_id = %s. The statement waits while another transaction holds
\* the row, then works on the row's latest committed version; it matches no row
\* when the session has none.
SaveUpdate(p) ==
  /\ pc[p] = "inserted"
  /\ LET s == txn[p].session_id IN
       IF s \in DOMAIN session_chat
       THEN /\ row_lock[s] \in {"free", p}
            /\ row_lock' = [row_lock EXCEPT ![s] = p]
            /\ txn' = [txn EXCEPT ![p].updated = TRUE,
                                  ![p].new_row =
                                     [session_chat[s] EXCEPT
                                        !.history = MergedHistory(session_chat[s].history, txn[p]),
                                        !.updated_at = txn[p].timestamp]]
       ELSE /\ row_lock' = row_lock
            /\ txn' = txn
  /\ pc' = [pc EXCEPT ![p] = "updated"]
  /\ UNCHANGED <<connection_pool, conversation, session_chat, ret, returned, ctxVars>>

\* conn.commit(); cursor.close(); putconn; return conv_id_str: both writes of
\* the transaction become durable together.
SaveCommitMissing(p) ==
  /\ pc[p] = "updated"
  /\ row_lock' = ReleaseLocks(p)
  /\ returned' = Append(returned, <<txn[p].session_id, txn[p].conv_id>>)
  /\ ret' = [NoRet EXCEPT !.worker = p, !.op = "save_conversation", !.ok = TRUE, !.conv_id = txn[p].conv_id]
  /\ txn' = [txn EXCEPT ![p] = NoTxn]
  /\ pc' = [pc EXCEPT ![p] = "idle"]
  /\ UNCHANGED <<connection_pool, conversation, session_chat, ctxVars>>

SaveCommit(p) ==
  /\ pc[p] = "updated"
  /\ conversation' =
       IF txn[p].inserted THEN conversation \cup {ConversationRow(txn[p])} ELSE conversation
  /\ session_chat' =
       IF txn[p].updated
       THEN [session_chat EXCEPT ![txn[p].session_id] = txn[p].new_row]
       ELSE session_chat
  /\ row_lock' = ReleaseLocks(p)
  /\ returned' = Append(returned, <<txn[p].session_id, txn[p].conv_id>>)
  /\ ret' = [NoRet EXCEPT !.worker = p, !.op = "save_conversation", !.ok = TRUE, !.conv_id = txn[p].conv_id]
  /\ txn' = [txn EXCEPT ![p] = NoTxn]
  /\ pc' = [pc EXCEPT ![p] = "idle"]
  /\ UNCHANGED <<connection_pool, ctxVars>>

\* Any statement of the try block raises (connection lost, statement error,
\* failed commit): the except branch rolls back and re-raises.
SaveFail(p) ==
  /\ pc[p] \in {"begun", "inserted", "updated"}
  /\ SaveRollback(p)

\* The server process is killed: every open transaction is aborted by the
\* database, and the process's memory (the pool, the workers) is gone.
Kill ==
  /\ \E p \in Procs : pc[p] # "idle"
  /\ connection_pool' = FALSE
  /\ pc' = [p \in Procs |-> "idle"]
  /\ txn' = [p \in Procs |-> NoTxn]
  /\ \E p \in Procs :
       /\ pc[p] # "idle"
       /\ ret' = [NoRet EXCEPT !.worker = p, !.op = "save_conversation", !.ok = FALSE,
                               !.note = pc[p], !.conv_id = txn[p].conv_id]
  /\ row_lock' = [s \in Sessions |-> "free"]
  /\ UNCHANGED <<conversation, session_chat, returned, ctxVars>>

\* get_session_history: the history column of the session's row; {} when
\* there is no pool or no row (or the history is empty).
get_session_history(s) ==
  IF connection_pool /\ s \in DOMAIN session_chat THEN session_chat[s].history ELSE EmptyMap

\* history_dict.items(): the jsonb object's pairs in its key order.
HistoryItems(history_dict) ==
  LET keys == AscSeq(DOMAIN history_dict)
  IN [i \in 1..Len(keys) |-> [conv_id |-> keys[i], conv_data |-> history_dict[keys[i]]]]

\* One step of sorted(): item, which follows every element of `sorted` in the
\* input, goes after the elements whose key is not greater (the sort is stable).
RECURSIVE InsertByTimestamp(_, _)
InsertByTimestamp(sorted, item) ==
  IF sorted = <<>> THEN <<item>>
  ELSE LET n == Len(sorted) IN
       IF StrLess(item.conv_data.timestamp, sorted[n].conv_data.timestamp)
       THEN Append(InsertByTimestamp(SubSeq(sorted, 1, n - 1), item), sorted[n])
       ELSE Append(sorted, item)

RECURSIVE SortByTimestamp(_)
SortByTimestamp(items) ==
  IF items = <<>> THEN <<>>
  ELSE LET n == Len(items) IN
       InsertByTimestamp(SortByTimestamp(SubSeq(items, 1, n - 1)), items[n])

sorted_conversations_unsorted(history_dict) == HistoryItems(history_dict)

\* sorted(history_dict.items(), key=lambda x: x[1].get('timestamp', '')).
sorted_conversations(history_dict) == SortByTimestamp(HistoryItems(history_dict))

\* The blocks fetch_chat_history renders between "[Previous Conversation]" and
\* "[End of Previous Conversation]", one per turn; none when it returns "".
history_context(history_dict) ==
  LET sc == sorted_conversations(history_dict)
  IN [i \in 1..Len(sc) |->
        [timestamp |-> sc[i].conv_data.timestamp,
         user_query |-> sc[i].conv_data.user_query,
         assistant_output |-> sc[i].conv_data.assistant_output]]

\* fetch_chat_history(session_id): "" without a session_id or with an empty
\* history; the query of get_session_history may raise, which reads as {}.
FetchChatHistory(p, s) ==
  /\ pc[p] = "idle"
  /\ \E history_dict \in {IF s = NoSession THEN EmptyMap ELSE get_session_history(s), EmptyMap} :
       ret' = [NoRet EXCEPT !.worker = p, !.session_id = s, !.op = "fetch_chat_history",
                        !.history = history_dict,
                        !.blocks = history_context(history_dict)]
  /\ UNCHANGED <<connection_pool, conversation, session_chat, row_lock, pc, txn, returned, ctxVars>>

\* ------------------------------------------------------------- the hosting API
\* The authenticated user (UserContext.github_username).
github_username == "alice"

\* repo_name as the agent passes it: 'owner/repo' is <<owner, repo>>, a bare
\* 'repo' is <<repo>>.
RepoArgs == {<<"repo1">>, <<"alice", "repo2">>, <<"typo">>}
\* repo_name=None of cache_repo_structure.
NoRepo == <<>>

\* "Parse repository name": split("/", 1), or the authenticated user as owner.
full_repo_name(repo_name) ==
  IF Len(repo_name) = 2 THEN repo_name ELSE <<github_username, repo_name[1]>>

FileItem(name, path) == [name |-> name, path |-> path, type |-> "file", size |-> 1]
DirItem(name, path) == [name |-> name, path |-> path, type |-> "dir"]
OtherItem(name, path) == [name |-> name, path |-> path, type |-> "symlink"]

\* alice/repo1 on the remote: directory path -> its listing, in listing order.
\*   b, s/, R;  s/: s/m, s/d/;  s/d/: s/d/a, s/d/e/;  s/d/e/: s/d/e/x
Repo1Tree ==
  [d \in {<<>>, <<115>>, <<115, 47, 100>>, <<115, 47, 100, 47, 101>>} |->
     IF d = <<>> THEN <<FileItem("b", <<98>>), DirItem("s", <<115>>), FileItem("R", <<82>>)>>
     ELSE IF d = <<115>>
       THEN <<FileItem("m", <<115, 47, 109>>), DirItem("d", <<115, 47, 100>>)>>
     ELSE IF d = <<115, 47, 100>>
       THEN <<FileItem("a", <<115, 47, 100, 47, 97>>), DirItem("e", <<115, 47, 100, 47, 101>>)>>
     ELSE <<FileItem("x", <<115, 47, 100, 47, 101, 47, 120>>)>>]

\* alice/repo2 on the remote: no subdirectories.  c, l (a symlink), A
Repo2Tree ==
  [d \in {<<>>} |-> <<FileItem("c", <<99>>), OtherItem("l", <<108>>), FileItem("A", <<65>>)>>]

\* The tree of a repository on the remote; a name the remote does not know has
\* no listing at all (every request answers 404).
RemoteTree(full_name) ==
  IF full_name = <<"alice", "repo1">> THEN Repo1Tree
  ELSE IF full_name = <<"alice", "repo2">> THEN Repo2Tree
  ELSE EmptyMap

\* GET /user/repos of the authenticated user; the last entry has no full_name.
RemoteRepos == <<[full_name |-> <<"alice", "repo1">>], [full_name |-> <<"alice", "repo2">>],
                 [full_name |-> <<"">>]>>

\* Directory paths of either tree: the listings that can fail during a walk.
AllDirs == DOMAIN Repo1Tree \cup DOMAIN Repo2Tree

\* ------------------------------------------------------------- the tree cache
\* fetch_repo_tree_recursive: the entries under `path` in pre-order. A listing
\* that answers non-200 or raises (path in `failing`) contributes nothing.
RECURSIVE fetch_repo_tree_recursive(_, _, _)
RECURSIVE WalkContents(_, _, _)
\* A walk that puts a directory's entry after the entries found below it.
WalkContentsPostOrder(tree, failing, contents) ==
  IF contents = <<>> THEN <<>>
  ELSE LET item == Head(contents)
           found ==
             IF item.type = "file"
               THEN <<[name |-> item.name, path |-> item.path, type |-> "file",
                       size |-> item.size, download_url |-> item.path]>>
             ELSE IF item.type = "dir"
               THEN fetch_repo_tree_recursive(tree, failing, item.path)
                    \o <<[name |-> item.name, path |-> item.path, type |-> "dir"]>>
             ELSE <<>>
       IN found \o WalkContents(tree, failing, Tail(contents))

WalkContents(tree, failing, contents) ==
  IF contents = <<>> THEN <<>>
  ELSE LET item == Head(contents)
           found ==
             IF item.type = "file"
               THEN <<[name |-> item.name, path |-> item.path, type |-> "file",
                       size |-> item.size, download_url |-> item.path]>>
             ELSE IF item.type = "dir"
               THEN <<[name |-> item.name, path |-> item.path, type |-> "dir"]>>
                    \o fetch_repo_tree_recursive(tree, failing, item.path)
             ELSE <<>>
       IN found \o WalkContents(tree, failing, Tail(contents))

\* A walk that gives up the whole tree once any listing fails.
fetch_repo_tree_all_or_nothing(tree, failing, path) ==
  IF failing = {} /\ path \in DOMAIN tree
  THEN WalkContents(tree, failing, tree[path])
  ELSE <<>>

fetch_repo_tree_recursive(tree, failing, path) ==
  IF path \in DOMAIN tree /\ path \notin failing
  THEN WalkContents(tree, failing, tree[path])
  ELSE <<>>

\* The count over the entries of the root listing only.
CountTypeTopLevel(file_tree, kind) ==
  Cardinality({i \in DOMAIN file_tree :
                 file_tree[i].type = kind /\ \A j \in DOMAIN file_tree[i].path : file_tree[i].path[j] # 47})

\* len([f for f in file_tree if f['type'] == kind])
RECURSIVE CountType(_, _)
CountType(file_tree, kind) ==
  IF file_tree = <<>> THEN 0
  ELSE (IF Head(file_tree).type = kind THEN 1 ELSE 0) + CountType(Tail(file_tree), kind)

\* The snapshot stored under full_name: user_ctx.repos_cache[full_name] = {...}.
Snapshot(full_name, file_tree, cached_at) ==
  [owner |-> full_name[1], repo |-> full_name[2], full_name |-> full_name,
   file_count |-> CountType(file_tree, "file"),
   dir_count |-> CountType(file_tree, "dir"),
   files |-> file_tree, cached_at |-> cached_at]

\* A write that adds the fetched entries to those already stored under the key.
CachePutMerged(cache, full_name, snapshot) ==
  [keys |-> IF full_name \in Range(cache.keys) THEN cache.keys ELSE Append(cache.keys, full_name),
   at |-> [k \in DOMAIN cache.at \cup {full_name} |->
             IF k # full_name THEN cache.at[k]
             ELSE IF k \in DOMAIN cache.at
               THEN [snapshot EXCEPT !.files = cache.at[k].files \o snapshot.files]
             ELSE snapshot]]

\* cache[full_name] = snapshot on a dict: a new key goes last, an old key
\* keeps its place. The cache is <<keys in insertion order, key -> snapshot>>.
CachePut(cache, full_name, snapshot) ==
  [keys |-> IF full_name \in Range(cache.keys) THEN cache.keys ELSE Append(cache.keys, full_name),
   at |-> [k \in DOMAIN cache.at \cup {full_name} |->
             IF k = full_name THEN snapshot ELSE cache.at[k]]]

EmptyCache == [keys |-> <<>>, at |-> EmptyMap]

\* The loop "for repo_info in repos_to_cache": each repository's tree is
\* fetched (failing[i] names the listings that fail for the i-th one) and
\* stored, in order.
RECURSIVE CacheEach(_, _, _, _)
CacheEach(cache, repos_to_cache, failing, cached_at) ==
  IF repos_to_cache = <<>> THEN cache
  ELSE LET full_name == Head(repos_to_cache)
           file_tree == fetch_repo_tree_recursive(RemoteTree(full_name), Head(failing), <<>>)
       IN CacheEach(CachePut(cache, full_name, Snapshot(full_name, file_tree, cached_at)),
                    Tail(repos_to_cache), Tail(failing), cached_at)

\* sum(cache[field] for cache in user_ctx.repos_cache.values())
RECURSIVE SumOver(_, _, _)
SumOver(cache, keys, field) ==
  IF keys = <<>> THEN 0
  ELSE (IF field = "file_count" THEN cache.at[Head(keys)].file_count
        ELSE cache.at[Head(keys)].dir_count) + SumOver(cache, Tail(keys), field)

\* The full names GET /user/repos yields: entries whose full_name has a '/'.
RECURSIVE ReposWithSlash(_)
ReposWithSlash(repos) ==
  IF repos = <<>> THEN <<>>
  ELSE (IF Len(Head(repos).full_name) = 2 THEN <<Head(repos).full_name>> ELSE <<>>)
       \o ReposWithSlash(Tail(repos))

\* ------------------------------------------------------------- results and the audit trail
\* Truncation caps of the tracked output.
CapShort == 500
CapDiff == 1000
\* Length of a message whose text does not grow with the remote's data.
ShortLen == 40
\* Lengths a result that carries remote data (a listing, a file, a diff, a
\* remote message) can have.
Lens == {ShortLen, CapShort + 1, CapDiff + 1}

\* A result string: what it says (kind), its length, and the list it carries
\* (paths or repository names), with the counts of a caching confirmation.
Text(kind, len) == [kind |-> kind, len |-> len, list |-> <<>>, files |-> 0, dirs |-> 0, count |-> 0]
NoResult == [tool_name |-> "", text |-> Text("", 0), answers |-> <<>>, remote_calls |-> 0]

\* result[:cap] + "..." if len(result) > cap else result
TruncateEllipsis(text, cap) == IF text.len > cap THEN [text EXCEPT !.len = cap + 3] ELSE text
\* result[:cap] if len(result) > cap else result
TruncateSlice(text, cap) == IF text.len > cap THEN [text EXCEPT !.len = cap] ELSE text

\* user_ctx.tool_executions.append({"tool_name", "input", "output"}); return result
\* `answers` are the answers the operation's own requests got, in order (the
\* listings of a tree walk are counted in remote_calls only).
TrackAndReturn(p, tool_name, input, output, text, answers, remote_calls) ==
  /\ tool_executions' = [tool_executions EXCEPT ![p] =
        Append(@, [tool_name |-> tool_name, input |-> input, output |-> output])]
  /\ result' = [result EXCEPT ![p] =
        [tool_name |-> tool_name, text |-> text, answers |-> answers,
         remote_calls |-> remote_calls]]

\* return without an append.
ReturnUntracked(p, tool_name, text, answers, remote_calls) ==
  /\ tool_executions' = tool_executions
  /\ result' = [result EXCEPT ![p] =
        [tool_name |-> tool_name, text |-> text, answers |-> answers,
         remote_calls |-> remote_calls]]

\* The agent invokes a tool: at most MaxCalls invocations in a turn.
Invoke(p, tool_name) ==
  /\ Len(invocations[p]) < MaxCalls
  /\ invocations' = [invocations EXCEPT ![p] = Append(@, tool_name)]

\* What the remote answers: a status code, or no answer (the request raises
\* requests.exceptions.RequestException: connection error or timeout).
Statuses == {200, 401, 403, 404, 422, 500}
NoAnswer == 0
Answers == Statuses \cup {NoAnswer}

\* sorted(paths): ascending in str order.
RECURSIVE InsertStr(_, _)
InsertStr(sorted, x) ==
  IF sorted = <<>> THEN <<x>>
  ELSE LET n == Len(sorted) IN
       IF StrLess(x, sorted[n])
       THEN Append(InsertStr(SubSeq(sorted, 1, n - 1), x), sorted[n])
       ELSE Append(sorted, x)

RECURSIVE SortedStr(_)
SortedStr(xs) ==
  IF xs = <<>> THEN <<>>
  ELSE InsertStr(SortedStr(SubSeq(xs, 1, Len(xs) - 1)), xs[Len(xs)])

\* [f['path'] for f in cached_files if f['type'] == 'file']
RECURSIVE FilePaths(_)
FilePaths(cached_files) ==
  IF cached_files = <<>> THEN <<>>
  ELSE (IF Head(cached_files).type = "file" THEN <<Head(cached_files).path>> ELSE <<>>)
       \o FilePaths(Tail(cached_files))

\* ------------------------------------------------------------- remote actions
\* The 404 branch of get_file_content: the sorted file paths of the cached
\* snapshot, or the plain message when the repository is not a cached key.
NotFoundTextUnsorted(cache, full_name, len) ==
  IF full_name \in DOMAIN cache.at
  THEN [Text("not_found_with_paths", len) EXCEPT
          !.list = FilePaths(cache.at[full_name].files)]
  ELSE Text("not_found", ShortLen)

NotFoundText(cache, full_name, len) ==
  IF full_name \in DOMAIN cache.at
  THEN [Text("not_found_with_paths", len) EXCEPT
          !.list = SortedStr(FilePaths(cache.at[full_name].files))]
  ELSE Text("not_found", ShortLen)

\* The texts get_file_content can build for one answer of the remote.
FileContentResults(cache, full_name, answer) ==
  IF answer = 200
    THEN {Text("file", len) : len \in Lens}
         \cup {Text(shape, ShortLen) :
                 shape \in {"binary", "not_a_file", "decode_error", "unsupported_encoding",
                            "value_error"}}
  ELSE IF answer = 404 THEN {NotFoundText(cache, full_name, len) : len \in Lens}
  ELSE IF answer = 403 THEN {Text("forbidden", ShortLen)}
  ELSE IF answer = 401 THEN {Text("auth_failed", ShortLen)}
  ELSE IF answer = NoAnswer THEN {Text("connection_error", ShortLen)}
  ELSE {Text("fetch_error", ShortLen)}

\* get_file_content: one GET of the contents endpoint, the text for its
\* answer, one record with the text cut to 500 characters plus "...".
get_file_content(p, repo_name) ==
  /\ Invoke(p, "get_file_content")
  /\ LET full_name == full_repo_name(repo_name) IN
     \E answer \in Answers :
       \E text \in FileContentResults(repos_cache[p], full_name, answer) :
         TrackAndReturn(p, "get_file_content", full_name,
                        TruncateEllipsis(text, CapShort), text, <<answer>>, 1)
  /\ UNCHANGED <<repos_cache, storeVars>>

\* A guard that rejects every name that is not a cached key.
CacheGuardRejectsWhenEmpty(cache, full_name) ==
  full_name \notin DOMAIN cache.at

\* The cache guard of list_repo_files: with a non-empty cache that lacks the
\* name, no request is made and the cached keys are returned.
CacheGuardRejects(cache, full_name) ==
  cache.keys # <<>> /\ full_name \notin DOMAIN cache.at

\* The texts list_repo_files can build for one answer of the remote.
ListFilesResults(answer) ==
  IF answer = 200
    THEN {Text("listing", len) : len \in Lens}
         \cup {Text(shape, ShortLen) :
                 shape \in {"single_file", "empty_dir", "unexpected_format", "value_error"}}
  ELSE IF answer = 404 THEN {Text("not_found", ShortLen)}
  ELSE IF answer = 403 THEN {Text("forbidden", ShortLen)}
  ELSE IF answer = 401 THEN {Text("auth_failed", ShortLen)}
  ELSE IF answer = NoAnswer THEN {Text("connection_error", ShortLen)}
  ELSE {Text("list_error", ShortLen)}

\* list_repo_files: the guard, else one GET of the contents endpoint; one
\* record with the whole text.
list_repo_files(p, repo_name) ==
  /\ Invoke(p, "list_repo_files")
  /\ LET full_name == full_repo_name(repo_name) IN
     IF CacheGuardRejects(repos_cache[p], full_name)
     THEN \E len \in Lens :
            LET text == [Text("not_in_cache", len) EXCEPT !.list = repos_cache[p].keys]
            IN TrackAndReturn(p, "list_repo_files", full_name, text, text, <<>>, 0)
     ELSE \E answer \in Answers :
            \E text \in ListFilesResults(answer) :
              TrackAndReturn(p, "list_repo_files", full_name, text, text, <<answer>>, 1)
  /\ UNCHANGED <<repos_cache, storeVars>>

\* Requests of one tree walk: the root listing and one per directory found.
RECURSIVE WalkRequests(_, _)
WalkRequests(cache, keys) ==
  IF keys = <<>> THEN 0
  ELSE 1 + cache.at[Head(keys)].dir_count + WalkRequests(cache, Tail(keys))

\* A named build that stores nothing and reports an error when the listing
\* of the repository root fails.
CacheNamedRepoRootChecked(p, repo_name, cached_at, failing) ==
  LET full_name == full_repo_name(repo_name)
      cache == CacheEach(repos_cache[p], <<full_name>>, <<failing>>, cached_at)
      text == [Text("cached_repo", ShortLen) EXCEPT
                 !.files = cache.at[full_name].file_count,
                 !.dirs = cache.at[full_name].dir_count,
                 !.count = Len(cache.at[full_name].files)]
  IN IF <<>> \in failing \/ <<>> \notin DOMAIN RemoteTree(full_name)
     THEN /\ repos_cache' = repos_cache
          /\ TrackAndReturn(p, "cache_repo_structure", full_name,
                            Text("cache_error", ShortLen), Text("cache_error", ShortLen), <<>>, 1)
     ELSE /\ repos_cache' = [repos_cache EXCEPT ![p] = cache]
          /\ TrackAndReturn(p, "cache_repo_structure", full_name, text, text, <<>>,
                            WalkRequests(cache, <<full_name>>))

\* The named branch of cache_repo_structure when the listings in `failing`
\* fail: the tree is fetched and stored under the full name, and the success
\* text is tracked.
CacheNamedRepo(p, repo_name, cached_at, failing) ==
  LET full_name == full_repo_name(repo_name)
      cache == CacheEach(repos_cache[p], <<full_name>>, <<failing>>, cached_at)
      text == [Text("cached_repo", ShortLen) EXCEPT
                 !.files = cache.at[full_name].file_count,
                 !.dirs = cache.at[full_name].dir_count,
                 !.count = Len(cache.at[full_name].files)]
  IN /\ repos_cache' = [repos_cache EXCEPT ![p] = cache]
     /\ TrackAndReturn(p, "cache_repo_structure", full_name, text, text, <<>>,
                       WalkRequests(cache, <<full_name>>))

\* cache_repo_structure for one named repository: the tree is fetched and
\* stored under the full name, whatever the listings answer.
cache_repo_structure(p, repo_name, cached_at) ==
  /\ Invoke(p, "cache_repo_structure")
  /\ \E failing \in SUBSET DOMAIN RemoteTree(full_repo_name(repo_name)) :
       CacheNamedRepo(p, repo_name, cached_at, failing)
  /\ UNCHANGED storeVars

\* For each repository of the loop, the listings of its tree that fail.
FailingListings(repos_to_cache) ==
  {failing \in [DOMAIN repos_to_cache -> SUBSET AllDirs] :
     \A i \in DOMAIN repos_to_cache : failing[i] \subseteq DOMAIN RemoteTree(repos_to_cache[i])}

\* cache_repo_structure with no repo_name: GET /user/repos, then every listed
\* repository is fetched and stored; the totals are summed over the cache.
cache_all_repos(p, cached_at) ==
  /\ Invoke(p, "cache_repo_structure")
  /\ \E answer \in Answers :
       IF answer = NoAnswer
       THEN /\ repos_cache' = repos_cache
            /\ TrackAndReturn(p, "cache_repo_structure", NoRepo,
                              Text("connection_error", ShortLen),
                              Text("connection_error", ShortLen), <<answer>>, 1)
       ELSE LET repos_to_cache == IF answer = 200 THEN ReposWithSlash(RemoteRepos) ELSE <<>> IN
            \E failing \in FailingListings(repos_to_cache) :
              LET cache == CacheEach(repos_cache[p], repos_to_cache, failing, cached_at)
                  text == [Text("cached_all", ShortLen) EXCEPT
                             !.count = Len(repos_to_cache),
                             !.files = SumOver(cache, cache.keys, "file_count"),
                             !.dirs = SumOver(cache, cache.keys, "dir_count")]
              IN /\ repos_cache' = [repos_cache EXCEPT ![p] = cache]
                 /\ TrackAndReturn(p, "cache_repo_structure", NoRepo, text, text, <<answer>>,
                                   1 + WalkRequests(cache, repos_to_cache))
  /\ UNCHANGED storeVars

\* get_pr_diff: GET the pull request, then its files. A failed first or second
\* answer returns early with the whole text tracked; the diff (or an exception
\* text) is tracked cut to 1000 characters plus "...".
get_pr_diff(p, repo_name) ==
  /\ Invoke(p, "get_pr_diff")
  /\ LET full_name == full_repo_name(repo_name)
         connection_error == Text("connection_error", ShortLen)
     IN
     \E pr_answer \in Answers :
       IF pr_answer = NoAnswer
       THEN TrackAndReturn(p, "get_pr_diff", full_name,
                           TruncateEllipsis(connection_error, CapDiff), connection_error,
                           <<pr_answer>>, 1)
       ELSE IF pr_answer # 200
       THEN \E len \in Lens :
              LET text == Text(IF pr_answer = 404 THEN "pr_not_found" ELSE "pr_fetch_error", len)
              IN TrackAndReturn(p, "get_pr_diff", full_name, text, text, <<pr_answer>>, 1)
       ELSE \E files_answer \in Answers :
              IF files_answer = NoAnswer
              THEN TrackAndReturn(p, "get_pr_diff", full_name,
                                  TruncateEllipsis(connection_error, CapDiff), connection_error,
                                  <<pr_answer, files_answer>>, 2)
              ELSE IF files_answer # 200
              THEN \E len \in Lens :
                     LET text == Text("files_fetch_error", len)
                     IN TrackAndReturn(p, "get_pr_diff", full_name, text, text,
                                       <<pr_answer, files_answer>>, 2)
              ELSE \E len \in Lens :
                     TrackAndReturn(p, "get_pr_diff", full_name,
                                    TruncateEllipsis(Text("diff", len), CapDiff), Text("diff", len),
                                    <<pr_answer, files_answer>>, 2)
  /\ UNCHANGED <<repos_cache, storeVars>>

\* review_pull_request: an invalid event or a missing body returns before
\* tool_input exists and before the append; otherwise one POST and one record
\* with the whole text.
review_pull_request(p, repo_name, event, body) ==
  /\ Invoke(p, "review_pull_request")
  /\ LET full_name == full_repo_name(repo_name) IN
     IF event \notin {"APPROVE", "REQUEST_CHANGES", "COMMENT"}
     THEN ReturnUntracked(p, "review_pull_request", Text("invalid_event", ShortLen), <<>>, 0)
     ELSE IF event = "REQUEST_CHANGES" /\ body = ""
     THEN ReturnUntracked(p, "review_pull_request", Text("body_required", ShortLen), <<>>, 0)
     ELSE \E answer \in Answers :
            \E len \in IF answer = 200 /\ body # "" THEN Lens ELSE {ShortLen} :
              LET text ==
                    IF answer = 200 THEN Text("reviewed", len)
                    ELSE IF answer = 404 THEN Text("pr_not_found", ShortLen)
                    ELSE IF answer = 422 THEN Text("validation_failed", ShortLen)
                    ELSE IF answer = 403 THEN Text("forbidden", ShortLen)
                    ELSE IF answer = NoAnswer THEN Text("connection_error", ShortLen)
                    ELSE Text("review_error", ShortLen)
              IN TrackAndReturn(p, "review_pull_request", full_name, text, text, <<answer>>, 1)
  /\ UNCHANGED <<repos_cache, storeVars>>

\* get_repo_info: one GET; it returns a dict and appends no record.
get_repo_info(p, repo_name) ==
  /\ Invoke(p, "get_repo_info")
  /\ \E answer \in Answers :
       ReturnUntracked(p, "get_repo_info",
                       Text(IF answer = 200 THEN "repo_info" ELSE "error", ShortLen),
                       <<answer>>, 1)
  /\ UNCHANGED <<repos_cache, storeVars>>

\* list_repos: one GET of the user's repositories; one record with the whole
\* text.
list_repos(p) ==
  /\ Invoke(p, "list_repos")
  /\ \E answer \in Answers :
       \E text \in IF answer = 200 THEN {Text("repo_list", len) : len \in Lens}
                                        \cup {Text("no_repos", ShortLen)}
                   ELSE IF answer = 404 THEN {Text("user_not_found", ShortLen)}
                   ELSE IF answer = 403 THEN {Text("rate_limit_or_forbidden", ShortLen)}
                   ELSE IF answer = NoAnswer THEN {Text("connection_error", ShortLen)}
                   ELSE {Text("fetch_error", ShortLen)} :
         TrackAndReturn(p, "list_repos", NoRepo, text, text, <<answer>>, 1)
  /\ UNCHANGED <<repos_cache, storeVars>>

\* create_branch: GET the source ref, POST the new ref; one record with the
\* text cut to 500 characters.
create_branch(p, repo_name) ==
  /\ Invoke(p, "create_branch")
  /\ LET full_name == full_repo_name(repo_name) IN
     \E ref_answer \in Answers :
       IF ref_answer # 200
       THEN \E text \in IF ref_answer = NoAnswer THEN {Text("connection_error", ShortLen)}
                        ELSE {Text("source_branch_not_found", len) : len \in Lens} :
              TrackAndReturn(p, "create_branch", full_name, TruncateSlice(text, CapShort), text,
                             <<ref_answer>>, 1)
       ELSE \E create_answer \in Answers \cup {201} :
              \E text \in IF create_answer = NoAnswer THEN {Text("connection_error", ShortLen)}
                          ELSE IF create_answer = 201
                            THEN {Text("branch_created", len) : len \in Lens}
                          ELSE IF create_answer = 422
                            THEN {Text("branch_exists", len) : len \in Lens}
                          ELSE {Text("create_error", ShortLen)} :
                TrackAndReturn(p, "create_branch", full_name, TruncateSlice(text, CapShort), text,
                               <<ref_answer, create_answer>>, 2)
  /\ UNCHANGED <<repos_cache, storeVars>>

\* The body of a 422 answer: its message and its list of errors, each error
\* by its message.
Messages422 == {"Validation Failed", "Reference already exists"}
ErrorMessages == {"name already exists on this account",
                  "A pull request already exists for alice:dev.",
                  "No commits between main and dev", "is invalid"}
ErrorLists ==
  {<<>>} \cup {<<a>> : a \in ErrorMessages} \cup {<<a, b>> : a, b \in ErrorMessages}
Bodies == [message : Messages422, errors : ErrorLists]
NoBody == [message |-> "", errors |-> <<>>]

\* The 422 branch of create_repo: the first error's message is compared with
\* the duplicate-name message; otherwise the body's message goes through.
create_repo_422(body) ==
  IF body.errors # <<>> /\ body.errors[1] = "name already exists on this account"
  THEN Text("repo_exists", ShortLen)
  ELSE [Text("validation_message", ShortLen) EXCEPT !.list = <<body.message>>]

\* create_repo answered: one POST of /user/repos; one record with the whole
\* text.
CreateRepoAnswered(p, answer, body) ==
  \E text \in IF answer = 201 THEN {Text("repo_created", len) : len \in Lens}
              ELSE IF answer = 422 THEN {create_repo_422(body)}
              ELSE IF answer = 403 THEN {Text("forbidden", ShortLen)}
              ELSE IF answer = 401 THEN {Text("auth_failed", ShortLen)}
              ELSE IF answer = NoAnswer THEN {Text("connection_error", ShortLen)}
              ELSE {Text("create_error", ShortLen)} :
    TrackAndReturn(p, "create_repo", <<"new">>, text, text, <<answer>>, 1)

create_repo(p) ==
  /\ Invoke(p, "create_repo")
  /\ \E answer \in Answers \cup {201} :
       \E body \in IF answer = 422 THEN Bodies ELSE {NoBody} :
         CreateRepoAnswered(p, answer, body)
  /\ UNCHANGED <<repos_cache, storeVars>>

\* "pull request already exists" in str(err).lower()
pull_request_already_exists(err) == err = "A pull request already exists for alice:dev."
\* "no commits between" in str(err).lower()
no_commits_between(err) == err = "No commits between main and dev"

\* The 422 branch of create_pull_request: every error of the list is searched
\* for the two signatures; otherwise the message and the list go through.
create_pull_request_422(body) ==
  IF \E i \in DOMAIN body.errors : pull_request_already_exists(body.errors[i])
    THEN Text("pr_exists", ShortLen)
  ELSE IF \E i \in DOMAIN body.errors : no_commits_between(body.errors[i])
    THEN Text("no_commits", ShortLen)
  ELSE [Text("validation_message", ShortLen) EXCEPT !.list = <<body.message>> \o body.errors]

\* create_pull_request answered: one POST of the pulls endpoint; one record
\* with the text cut to 500 characters.
CreatePullRequestAnswered(p, repo_name, answer, body) ==
  \E text \in IF answer = 201 THEN {Text("pr_created", len) : len \in Lens}
              ELSE IF answer = 422 THEN {create_pull_request_422(body)}
              ELSE IF answer = 404 THEN {Text("not_found", ShortLen)}
              ELSE IF answer = 403 THEN {Text("forbidden", ShortLen)}
              ELSE IF answer = NoAnswer THEN {Text("connection_error", ShortLen)}
              ELSE {Text("create_error", ShortLen)} :
    TrackAndReturn(p, "create_pull_request", full_repo_name(repo_name),
                   TruncateSlice(text, CapShort), text, <<answer>>, 1)

create_pull_request(p, repo_name) ==
  /\ Invoke(p, "create_pull_request")
  /\ \E answer \in Answers \cup {201} :
       \E body \in IF answer = 422 THEN Bodies ELSE {NoBody} :
         CreatePullRequestAnswered(p, repo_name, answer, body)
  /\ UNCHANGED <<repos_cache, storeVars>>

\* get_user_info: a local tool, no request; one record (its input is the
\* requesting user) with the whole text.
get_user_info(p) ==
  /\ Invoke(p, "get_user_info")
  /\ TrackAndReturn(p, "get_user_info", <<github_username>>, Text("user_info", ShortLen),
                    Text("user_info", ShortLen), <<>>, 0)
  /\ UNCHANGED <<repos_cache, storeVars>>

CtxInit ==
  /\ tool_executions = [p \in Procs |-> <<>>]
  /\ repos_cache = [p \in Procs |-> EmptyCache]
  /\ result = [p \in Procs |-> NoResult]
  /\ invocations = [p \in Procs |-> <<>>]

\* ------------------------------------------------------------- the request (process_agent_query)
\* The Authorization header: absent, not of the form "Bearer <token>", or a
\* bearer token.
Authorizations == {"None", "Token t", "Bearer t"}

\* An exception in flight: HTTPException carries a status_code; any other
\* exception has none (0). `at` is the call that raised it.
NoException == [type |-> "none", status_code |-> 0, at |-> ""]
HTTPException(status_code, at) == [type |-> "HTTPException", status_code |-> status_code, at |-> at]
OtherException(at) == [type |-> "Exception", status_code |-> 0, at |-> at]

\* The response of a request that has not answered yet.
NoResponse == [status_code |-> 0, status |-> "", conv_id |-> 0, session_id |-> NoSession,
               tools_responses |-> EmptyMap]

\* No store operation has run yet.
NoPoolCall == [op |-> "none", outcome |-> "", before |-> 0]

NoRequest ==
  [stage |-> "none", authorization |-> "None", session_id |-> NoSession,
   timestamp |-> NoTimestamp, credential |-> "", raised |-> NoException,
   tools_responses |-> EmptyMap, response |-> NoResponse]

\* except Exception as e: raise HTTPException(status_code=500, ...). It catches
\* every exception of the try block, the HTTPExceptions raised inside it too.
ExceptException(e) == [NoResponse EXCEPT !.status_code = 500, !.status = "error"]

\* The request r ends by raising e inside the try block of process_agent_query.
Raised(r, e) ==
  [r EXCEPT !.stage = "responded", !.raised = e, !.response = ExceptException(e)]

\* verify_github_token: the user on 200; HTTPException 401 on any other
\* status; HTTPException 500 when the request to the hosting API fails.
verify_github_token(answer) ==
  IF answer = 200 THEN NoException
  ELSE IF answer = NoAnswer THEN HTTPException(500, "verify_github_token")
  ELSE HTTPException(401, "verify_github_token")

\* A request arrives at a started server (startup_event has opened the pool).
Receive(p, authorization, s, ts) ==
  /\ connection_pool
  /\ request[p].stage = "none"
  /\ request' = [request EXCEPT ![p] =
        [NoRequest EXCEPT !.stage = "received", !.authorization = authorization,
                          !.session_id = s, !.timestamp = ts]]
  /\ UNCHANGED <<storeVars, ctxVars, used, pool_call>>

\* The header check and verify_github_token.
Authenticate(p) ==
  /\ request[p].stage = "received"
  /\ IF request[p].authorization = "None"
     THEN request' = [request EXCEPT ![p] =
            Raised([@ EXCEPT !.credential = "missing"], HTTPException(401, "header"))]
     ELSE IF request[p].authorization # "Bearer t"
     THEN request' = [request EXCEPT ![p] =
            Raised([@ EXCEPT !.credential = "malformed"], HTTPException(401, "header"))]
     ELSE \E answer \in Answers :
            LET e == verify_github_token(answer) IN
              IF e = NoException
              THEN request' = [request EXCEPT ![p].stage = "verified",
                                              ![p].credential = "accepted"]
              ELSE request' = [request EXCEPT ![p] =
                     Raised([@ EXCEPT !.credential =
                                IF answer = NoAnswer THEN "unverified" ELSE "rejected"], e)]
  /\ UNCHANGED <<storeVars, ctxVars, used, pool_call>>

\* create_session called whether or not the request has a session_id.
EnsureSessionAlways(p) ==
  /\ request[p].stage = "verified"
  /\ CreateSession(p, request[p].session_id, github_username)
  /\ request' = [request EXCEPT ![p].stage = "ensured"]
  /\ UNCHANGED <<used, pool_call>>

\* if request.session_id: create_session(request.session_id, login). Its
\* return value is not looked at.
EnsureSession(p) ==
  /\ request[p].stage = "verified"
  /\ IF request[p].session_id # NoSession
     THEN CreateSession(p, request[p].session_id, github_username)
     ELSE UNCHANGED <<storeVars, ctxVars>>
  /\ request' = [request EXCEPT ![p].stage = "ensured"]
  /\ UNCHANGED <<used, pool_call>>

\* A context built on the lists of another request's context.
NewContextShared(p) ==
  /\ request[p].stage = "ensured"
  /\ \E q \in Procs \ {p} :
       /\ tool_executions' = [tool_executions EXCEPT ![p] = tool_executions[q]]
       /\ repos_cache' = [repos_cache EXCEPT ![p] = repos_cache[q]]
  /\ result' = [result EXCEPT ![p] = NoResult]
  /\ invocations' = [invocations EXCEPT ![p] = <<>>]
  /\ request' = [request EXCEPT ![p].stage = "context"]
  /\ UNCHANGED <<storeVars, used, pool_call>>

\* ctx = UserContext(...): __post_init__ gives the request its own empty
\* tool_executions and repos_cache.
NewContext(p) ==
  /\ request[p].stage = "ensured"
  /\ tool_executions' = [tool_executions EXCEPT ![p] = <<>>]
  /\ repos_cache' = [repos_cache EXCEPT ![p] = EmptyCache]
  /\ result' = [result EXCEPT ![p] = NoResult]
  /\ invocations' = [invocations EXCEPT ![p] = <<>>]
  /\ request' = [request EXCEPT ![p].stage = "context"]
  /\ UNCHANGED <<storeVars, used, pool_call>>

\* history_context = fetch_chat_history(ctx.session_id): the session's earlier
\* turns are read for the prompt.
LoadHistory(p) ==
  /\ request[p].stage = "context"
  /\ FetchChatHistory(p, request[p].session_id)
  /\ request' = [request EXCEPT ![p].stage = "running"]
  /\ UNCHANGED <<used, pool_call>>

\* Runner.run: the agent invokes tools on the request's context.
AgentCall(p) ==
  /\ request[p].stage = "running"
  /\ \/ get_user_info(p)
     \/ cache_repo_structure(p, <<"alice", "repo2">>, request[p].timestamp)
  /\ UNCHANGED appVars

\* A timeout that escapes the tool and ends the agent run.
AgentCallRemoteRaising(p) ==
  /\ request[p].stage = "running"
  /\ \/ list_repo_files(p, <<"repo1">>)
     \/ get_repo_info(p, <<"repo1">>)
  /\ request' =
       IF result'[p].answers[Len(result'[p].answers)] = NoAnswer
       THEN [request EXCEPT ![p] = Raised(@, OtherException("tool"))]
       ELSE request
  /\ UNCHANGED <<used, pool_call>>

\* Runner.run: the agent invokes a tool that makes a request of its own; the
\* tool catches the request's exception and returns a value.
AgentCallRemote(p) ==
  /\ request[p].stage = "running"
  /\ \/ list_repo_files(p, <<"repo1">>)
     \/ get_repo_info(p, <<"repo1">>)
  /\ UNCHANGED appVars

\* f"tool_{idx}"
ToolKey(idx) == <<"tool_", idx>>

\* The records keyed from the last one back.
tools_responses_reversed(executions) ==
  [k \in {ToolKey(idx) : idx \in 0..(Len(executions) - 1)} |-> executions[Len(executions) - k[2]]]

\* for idx, execution in enumerate(ctx.tool_executions):
\*     tools_responses[f"tool_{idx}"] = execution
tools_responses(executions) ==
  [k \in {ToolKey(idx) : idx \in 0..(Len(executions) - 1)} |-> executions[k[2] + 1]]

\* Runner.run returns: the tool responses are read off the context.
AgentCompletes(p) ==
  /\ request[p].stage = "running"
  /\ request' = [request EXCEPT ![p].stage = "completed",
                                ![p].tools_responses = tools_responses(tool_executions[p])]
  /\ UNCHANGED <<storeVars, ctxVars, used, pool_call>>

\* Runner.run raises (the model call fails, the turn limit is exceeded).
AgentFails(p) ==
  /\ request[p].stage = "running"
  /\ request' = [request EXCEPT ![p] = Raised(@, OtherException("Runner.run"))]
  /\ UNCHANGED <<storeVars, ctxVars, used, pool_call>>

\* user_query of the request: the query text, which names the request.
user_query(p) == <<"query of", p>>

\* assistant_output_dict
assistant_output_dict(p) ==
  [tools_responses |-> request[p].tools_responses, final_assistant_response |-> "out1"]

\* save_conversation(session_id=ctx.session_id, ...) is entered.
PersistBegin(p) ==
  /\ request[p].stage = "completed"
  /\ SaveBegin(p, request[p].session_id, request[p].timestamp, user_query(p),
               assistant_output_dict(p))
  /\ request' = [request EXCEPT ![p].stage = "saving"]
  /\ UNCHANGED <<used, pool_call>>

\* The INSERT of save_conversation; when it raises, save_conversation rolls
\* back and re-raises into the except branch of the request.
PersistInsert(p) ==
  /\ request[p].stage = "saving"
  /\ SaveInsert(p)
  /\ request' = IF pc'[p] = "idle"
                THEN [request EXCEPT ![p] = Raised(@, OtherException("save_conversation"))]
                ELSE request
  /\ UNCHANGED <<used, pool_call>>

PersistUpdate(p) ==
  /\ request[p].stage = "saving"
  /\ SaveUpdate(p)
  /\ UNCHANGED appVars

\* AgentQueryResponse(..., status="success", conv_id=conv_id, session_id=...)
SuccessResponse(p, conv_id) ==
  [status_code |-> 200, status |-> "success", conv_id |-> conv_id,
   session_id |-> request[p].session_id, tools_responses |-> request[p].tools_responses]

\* The error of save_conversation swallowed: the request answers success.
PersistFailSwallowed(p) ==
  /\ request[p].stage = "saving"
  /\ SaveFail(p)
  /\ request' = [request EXCEPT ![p].stage = "responded",
                                ![p].response = SuccessResponse(p, 0)]
  /\ UNCHANGED <<used, pool_call>>

\* Any statement of save_conversation raises: 500.
PersistFail(p) ==
  /\ request[p].stage = "saving"
  /\ SaveFail(p)
  /\ request' = [request EXCEPT ![p] = Raised(@, OtherException("save_conversation"))]
  /\ UNCHANGED <<used, pool_call>>

\* The save repeated after its commit.
PersistCommitAgain(p) ==
  /\ request[p].stage = "saving"
  /\ SaveCommit(p)
  /\ request' = [request EXCEPT ![p].stage = "completed"]
  /\ UNCHANGED <<used, pool_call>>

\* save_conversation commits and returns conv_id; the request answers.
PersistCommit(p) ==
  /\ request[p].stage = "saving"
  /\ SaveCommit(p)
  /\ request' = [request EXCEPT ![p].stage = "responded",
                                ![p].response = SuccessResponse(p, txn[p].conv_id)]
  /\ UNCHANGED <<used, pool_call>>

AppInit ==
  /\ request = [p \in Procs |-> NoRequest]
  /\ used = 0
  /\ pool_call = NoPoolCall

\* Requests served concurrently by a started server.
NextRequest ==
  \/ InitDatabase /\ UNCHANGED appVars
  \/ \E p \in Procs, authorization \in Authorizations, s \in {"s1", NoSession},
        ts \in Clock : Receive(p, authorization, s, ts)
  \/ \E p \in Procs : Authenticate(p)
  \/ \E p \in Procs : EnsureSession(p)
  \/ \E p \in Procs : NewContext(p)
  \/ \E p \in Procs : LoadHistory(p)
  \/ \E p \in Procs : AgentCall(p)
  \/ \E p \in Procs : AgentCompletes(p)
  \/ \E p \in Procs : AgentFails(p)
  \/ \E p \in Procs : PersistBegin(p)
  \/ \E p \in Procs : PersistInsert(p)
  \/ \E p \in Procs : PersistUpdate(p)
  \/ \E p \in Procs : PersistCommit(p)
  \/ \E p \in Procs : PersistFail(p)

\* ------------------------------------------------------------- the connection pool
\* SimpleConnectionPool(minconn=1, maxconn=10): getconn raises once maxconn
\* connections are checked out.
maxconn == 10

\* Where a store operation raises: nowhere, in getconn, in a statement of its
\* try block (execute, fetch, commit), or in a statement and then again in the
\* conn.rollback() of its except branch.
FailurePoints == {"none", "getconn", "statement", "rollback"}

\* How the call goes: an exhausted pool fails it in getconn whatever else
\* would have happened.
PoolOutcome(fail) == IF used >= maxconn THEN "getconn" ELSE fail

\* init_database: the pool is created and one connection is taken to run
\* db.sql; the except branch prints and re-raises without putconn.
init_database(fail) ==
  /\ ~connection_pool
  /\ connection_pool' = TRUE
  /\ used' = IF fail = "statement" THEN used + 1 ELSE used
  /\ pool_call' = [op |-> "init_database", outcome |-> fail, before |-> used]
  /\ UNCHANGED <<conversation, session_chat, row_lock, pc, txn, ret, returned, ctxVars, request>>

\* save_conversation: getconn ... commit, putconn; except: if conn:
\* conn.rollback(); putconn(conn). A rollback that raises skips the putconn.
save_conversation(fail) ==
  /\ connection_pool
  /\ used' = IF PoolOutcome(fail) = "rollback" THEN used + 1 ELSE used
  /\ pool_call' = [op |-> "save_conversation", outcome |-> PoolOutcome(fail), before |-> used]
  /\ UNCHANGED <<storeVars, ctxVars, request>>

\* create_session: getconn ... commit, putconn; except: if conn:
\* putconn(conn). It never calls conn.rollback().
create_session(fail) ==
  /\ connection_pool
  /\ used' = used
  /\ pool_call' = [op |-> "create_session", outcome |-> PoolOutcome(fail), before |-> used]
  /\ UNCHANGED <<storeVars, ctxVars, request>>

\* The three reads: getconn ... fetch, putconn; except: if conn: putconn(conn).
get_conversations_by_session(fail) ==
  /\ connection_pool
  /\ used' = used
  /\ pool_call' = [op |-> "get_conversations_by_session", outcome |-> PoolOutcome(fail),
                   before |-> used]
  /\ UNCHANGED <<storeVars, ctxVars, request>>

get_session_history_call(fail) ==
  /\ connection_pool
  /\ used' = used
  /\ pool_call' = [op |-> "get_session_history", outcome |-> PoolOutcome(fail), before |-> used]
  /\ UNCHANGED <<storeVars, ctxVars, request>>

get_session_info(fail) ==
  /\ connection_pool
  /\ used' = used
  /\ pool_call' = [op |-> "get_session_info", outcome |-> PoolOutcome(fail), before |-> used]
  /\ UNCHANGED <<storeVars, ctxVars, request>>

StoreInit ==
  /\ connection_pool = FALSE
  /\ conversation = {}
  /\ session_chat = EmptyMap
  /\ row_lock = [s \in Sessions |-> "free"]
  /\ pc = [p \in Procs |-> "idle"]
  /\ txn = [p \in Procs |-> NoTxn]
  /\ ret = NoRet
  /\ returned = <<>>

Init == StoreInit /\ CtxInit /\ AppInit

\* The store under concurrent workers: every store call but the replay read.
NextStore ==
  \/ InitDatabase /\ UNCHANGED appVars
  \/ \E p \in Procs, s \in Sessions, u \in Users : CreateSession(p, s, u) /\ UNCHANGED appVars
  \/ \E p \in Procs, s \in Sessions \cup {NoSession}, ts \in Timestamps \cup {NoTimestamp},
        q \in Queries, out \in Outputs : SaveBegin(p, s, ts, q, out) /\ UNCHANGED appVars
  \/ \E p \in Procs : SaveNoPool(p) /\ UNCHANGED appVars
  \/ \E p \in Procs : SaveInsert(p) /\ UNCHANGED appVars
  \/ \E p \in Procs : SaveUpdate(p) /\ UNCHANGED appVars
  \/ \E p \in Procs : SaveCommit(p) /\ UNCHANGED appVars
  \/ \E p \in Procs : SaveFail(p) /\ UNCHANGED appVars
  \/ Kill /\ UNCHANGED appVars

vars == <<storeVars, ctxVars, appVars>>

SpecStore == Init /\ [][NextStore]_vars

SpecRequest == Init /\ [][NextRequest]_vars

\* The store operations of one server process, one call after another, each
\* with the point where it raises.
NextPool ==
  \/ \E fail \in {"none", "statement"} : init_database(fail)
  \/ \E fail \in FailurePoints : save_conversation(fail)
  \/ \E fail \in FailurePoints \ {"rollback"} : create_session(fail)
  \/ \E fail \in FailurePoints \ {"rollback"} : get_conversations_by_session(fail)
  \/ \E fail \in FailurePoints \ {"rollback"} : get_session_history_call(fail)
  \/ \E fail \in FailurePoints \ {"rollback"} : get_session_info(fail)

SpecPool == Init /\ [][NextPool]_vars

\* History replay: one worker writes turns, the other reads them back.
Writer == "w1"
Reader == "w2"

NextReplay ==
  \/ InitDatabase /\ UNCHANGED appVars
  \/ \E s \in Sessions, u \in Users : CreateSession(Writer, s, u) /\ UNCHANGED appVars
  \/ \E s \in Sessions \cup {NoSession}, ts \in Timestamps \cup {NoTimestamp},
        q \in Queries, out \in Outputs : SaveBegin(Writer, s, ts, q, out) /\ UNCHANGED appVars
  \/ SaveInsert(Writer) /\ UNCHANGED appVars
  \/ SaveUpdate(Writer) /\ UNCHANGED appVars
  \/ SaveCommit(Writer) /\ UNCHANGED appVars
  \/ \E s \in Sessions \cup {NoSession} : FetchChatHistory(Reader, s) /\ UNCHANGED appVars

SpecReplay == Init /\ [][NextReplay]_vars

\* One turn: the agent of one request invokes tools one after another on the
\* request's Session Context.
Turn == "w1"

NextTurn ==
  \/ \E rn \in RepoArgs : get_file_content(Turn, rn) /\ UNCHANGED appVars
  \/ \E rn \in RepoArgs : list_repo_files(Turn, rn) /\ UNCHANGED appVars
  \/ \E rn \in RepoArgs, t \in Clock : cache_repo_structure(Turn, rn, t) /\ UNCHANGED appVars
  \/ \E t \in Clock : cache_all_repos(Turn, t) /\ UNCHANGED appVars
  \/ \E rn \in RepoArgs : get_pr_diff(Turn, rn) /\ UNCHANGED appVars
  \/ \E rn \in RepoArgs, event \in {"APPROVE", "REQUEST_CHANGES", "MERGE"}, body \in {"", "text"} :
       review_pull_request(Turn, rn, event, body) /\ UNCHANGED appVars
  \/ \E rn \in RepoArgs : get_repo_info(Turn, rn) /\ UNCHANGED appVars
  \/ list_repos(Turn) /\ UNCHANGED appVars
  \/ \E rn \in RepoArgs : create_branch(Turn, rn) /\ UNCHANGED appVars
  \/ get_user_info(Turn) /\ UNCHANGED appVars

SpecTurn == Init /\ [][NextTurn]_vars

\* One request from arrival to response, its agent calling tools that make
\* requests of their own.
TurnStep ==
  \/ Authenticate(Turn)
  \/ EnsureSession(Turn)
  \/ NewContext(Turn)
  \/ LoadHistory(Turn)
  \/ AgentCallRemote(Turn)
  \/ AgentCompletes(Turn)
  \/ AgentFails(Turn)
  \/ PersistBegin(Turn)
  \/ PersistInsert(Turn)
  \/ PersistUpdate(Turn)
  \/ PersistCommit(Turn)
  \/ PersistFail(Turn)

NextLive ==
  \/ InitDatabase /\ UNCHANGED appVars
  \/ \E authorization \in Authorizations, s \in {"s1", NoSession}, ts \in Clock :
       Receive(Turn, authorization, s, ts)
  \/ TurnStep

\* Every external call returns or times out and the handler is scheduled
\* until it has answered: a step of the request that stays possible is taken.
SpecLive == Init /\ [][NextLive]_vars /\ WF_vars(TurnStep)

\* The tree cache of one turn and the two actions that read it.
NextCache ==
  \/ \E rn \in RepoArgs, t \in Clock : cache_repo_structure(Turn, rn, t) /\ UNCHANGED appVars
  \/ \E t \in Clock : cache_all_repos(Turn, t) /\ UNCHANGED appVars
  \/ \E rn \in RepoArgs : get_file_content(Turn, rn) /\ UNCHANGED appVars
  \/ \E rn \in RepoArgs : list_repo_files(Turn, rn) /\ UNCHANGED appVars

SpecCache == Init /\ [][NextCache]_vars

\* The create operations of one turn.
NextCreate ==
  \/ create_repo(Turn) /\ UNCHANGED appVars
  \/ \E rn \in RepoArgs : create_pull_request(Turn, rn) /\ UNCHANGED appVars
  \/ \E rn \in RepoArgs : create_branch(Turn, rn) /\ UNCHANGED appVars

SpecCreate == Init /\ [][NextCreate]_vars

\* ------------------------------------------------------------- claims: the store
TurnLogged(id, s) == \E r \in conversation : r.conv_id = id /\ r.session_id = s
TurnMerged(id, s) == s \in DOMAIN session_chat /\ id \in DOMAIN session_chat[s].history

\* C1: save_turn is atomic. In every durable state (after a commit, after a
\* failure at any statement, after the process was killed between the
\* turn-log insert and the history merge, and while a transaction is open) a
\* turn is in the turn log exactly when it is in its session's history.
C1_SaveTurnAtomic ==
  \A id \in ConvIds, s \in Sessions \cup {NoSession} : TurnLogged(id, s) <=> TurnMerged(id, s)

\* A call was killed after its insert and before its merge, while another
\* turn is durable.
C1_Witness ==
  /\ ret.op = "save_conversation" /\ ~ret.ok /\ ret.note = "inserted" /\ ret.conv_id # 0
  /\ conversation # {}

ReturnedFor(s) == {i \in 1..Len(returned) : returned[i][1] = s}

\* C5: after k successful save_turn calls on a session, get_history returns
\* exactly k entries, keyed by the identifiers the calls returned; no two
\* returned identifiers are equal, across sessions and concurrent writers.
C5_HistoryHoldsReturnedTurns ==
  /\ \A s \in Sessions :
        connection_pool =>
          LET h == get_session_history(s) IN
          /\ Cardinality(DOMAIN h) = Cardinality(ReturnedFor(s))
          /\ DOMAIN h = {returned[i][2] : i \in ReturnedFor(s)}
  /\ \A i, j \in 1..Len(returned) : i # j => returned[i][2] # returned[j][2]
  /\ \A r1, r2 \in conversation : r1.conv_id = r2.conv_id => r1 = r2

\* Two calls on one session have returned and a third turn is being written.
C5_Witness ==
  /\ connection_pool
  /\ \E s \in Sessions : Cardinality(ReturnedFor(s)) = 2
  /\ \E s \in Sessions : Cardinality(DOMAIN get_session_history(s)) = 2

\* C9: create_session is idempotent. A call for a session_id that has a
\* record, with the same or another username, leaves the table as it is, and
\* no step of the store changes the username or created_at of a record or
\* removes it.
C9_CreateSessionIdempotent ==
  [][/\ \A p \in Procs, s \in Sessions, u \in Users :
          (s \in DOMAIN session_chat /\ CreateSession(p, s, u)) => session_chat' = session_chat
     /\ \A s \in DOMAIN session_chat :
          /\ s \in DOMAIN session_chat'
          /\ session_chat'[s].username = session_chat[s].username
          /\ session_chat'[s].created_at = session_chat[s].created_at]_vars

\* create_session met an existing record that already holds a turn, and
\* returned True.
C9_Witness ==
  /\ ret.op = "create_session" /\ ret.ok /\ ret.note = "conflict"
  /\ ret.session_id \in DOMAIN session_chat
  /\ session_chat[ret.session_id].history # EmptyMap

\* C10: a session's history only grows. No step removes a key or changes the
\* value under a key, and a save_turn that returns adds exactly one new key to
\* its session's history and none to any other.
C10_HistoryOnlyGrows ==
  [][\A s \in DOMAIN session_chat :
       LET h == session_chat[s].history
           h2 == session_chat'[s].history
           new == IF Len(returned') = Len(returned) + 1 /\ returned'[Len(returned')][1] = s
                  THEN {returned'[Len(returned')][2]} ELSE {}
       IN /\ s \in DOMAIN session_chat'
          /\ \A k \in DOMAIN h : k \in DOMAIN h2 /\ h2[k] = h[k]
          /\ DOMAIN h2 = DOMAIN h \cup new
          /\ new \cap DOMAIN h = {}]_vars

\* A second turn was merged into a history that already held one.
C10_Witness ==
  \E s \in DOMAIN session_chat :
    /\ Cardinality(DOMAIN session_chat[s].history) = 2
    /\ Cardinality(ReturnedFor(s)) = 2

\* C4: history replay renders the turns read from the store in ascending
\* order of their timestamp strings: one block per turn, and no block is
\* followed by a block with a smaller timestamp.
C4_ReplaySortedByTimestamp ==
  ret.op = "fetch_chat_history" =>
    /\ Len(ret.blocks) = Cardinality(DOMAIN ret.history)
    /\ \A k \in DOMAIN ret.history :
          \E i \in 1..Len(ret.blocks) : ret.blocks[i].timestamp = ret.history[k].timestamp
    /\ \A i, j \in 1..Len(ret.blocks) :
          StrLess(ret.blocks[i].timestamp, ret.blocks[j].timestamp) => i < j

\* The turn saved first carries the greater timestamp ("2", then "10") and the
\* replay shows the turn saved second before it.
C4_Witness ==
  /\ ret.op = "fetch_chat_history"
  /\ Len(ret.blocks) = 2
  /\ Len(returned) = 2
  /\ returned[1][1] = ret.session_id /\ returned[2][1] = ret.session_id
  /\ StrLess(ret.history[returned[2][2]].timestamp, ret.history[returned[1][2]].timestamp)
  /\ ret.blocks[1].timestamp = ret.history[returned[2][2]].timestamp
  /\ ret.blocks[2].timestamp = ret.history[returned[1][2]].timestamp


\* ------------------------------------------------------------- claims: the audit trail
\* The truncation cap of a tool's tracked output.
CapOf(tool_name) == IF tool_name = "get_pr_diff" THEN CapDiff ELSE CapShort

\* C2: after N remote-action invocations in a turn, the audit trail holds
\* exactly N records, the i-th one of the i-th invocation.
C2_OneRecordPerInvocation ==
  \A p \in Procs :
    /\ Len(tool_executions[p]) = Len(invocations[p])
    /\ \A i \in DOMAIN tool_executions[p] :
         tool_executions[p][i].tool_name = invocations[p][i]

\* C3: every record of the audit trail has an output no longer than the cap
\* of its tool (1000 for get_pr_diff, 500 for the others).
C3_OutputWithinCap ==
  \A p \in Procs :
    \A i \in DOMAIN tool_executions[p] :
      tool_executions[p][i].output.len <= CapOf(tool_executions[p][i].tool_name)

\* ------------------------------------------------------------- claims: the tree cache
\* Indices of the entries of one kind in a snapshot's entries.
EntriesOfKind(files, kind) == {i \in DOMAIN files : files[i].type = kind}

\* C6: in every stored snapshot, file_count is the number of entries of kind
\* file and dir_count the number of entries of kind dir.
C6_SnapshotCountsMatchEntries ==
  \A p \in Procs :
    \A k \in DOMAIN repos_cache[p].at :
      LET snapshot == repos_cache[p].at[k] IN
        /\ snapshot.file_count = Cardinality(EntriesOfKind(snapshot.files, "file"))
        /\ snapshot.dir_count = Cardinality(EntriesOfKind(snapshot.files, "dir"))

\* Both shapes in one cache: alice/repo1 walked to depth 3 with the listing of
\* s/d/e failed (the directory is an entry, its file is not), and alice/repo2
\* with no subdirectories.
C6_Witness ==
  /\ {<<"alice", "repo1">>, <<"alice", "repo2">>} \subseteq DOMAIN repos_cache[Turn].at
  /\ LET deep == repos_cache[Turn].at[<<"alice", "repo1">>]
         flat == repos_cache[Turn].at[<<"alice", "repo2">>]
     IN /\ \E i \in DOMAIN deep.files : deep.files[i].path = <<115, 47, 100, 47, 101>>
        /\ \A i \in DOMAIN deep.files : deep.files[i].path # <<115, 47, 100, 47, 101, 47, 120>>
        /\ deep.file_count = 4 /\ deep.dir_count = 3
        /\ flat.file_count = 2 /\ flat.dir_count = 0

\* The repository a worker's last record was made for.
LastInput(p) == tool_executions[p][Len(tool_executions[p])].input

\* C7: after get_file_content got a 404, the result for a cached repository
\* lists exactly the cached paths of kind file, ascending; for a repository
\* that is not cached it is the plain message with no list.
C7_NotFoundListsCachedFiles ==
  \A p \in Procs :
    (result[p].tool_name = "get_file_content" /\ result[p].answers = <<404>>) =>
      LET cache == repos_cache[p]
          text == result[p].text
      IN IF LastInput(p) \in DOMAIN cache.at
         THEN LET files == cache.at[LastInput(p)].files IN
              /\ text.kind = "not_found_with_paths"
              /\ Range(text.list) = {files[i].path : i \in EntriesOfKind(files, "file")}
              /\ Len(text.list) = Cardinality(EntriesOfKind(files, "file"))
              /\ \A i \in 1..(Len(text.list) - 1) : StrLess(text.list[i], text.list[i + 1])
         ELSE text.kind = "not_found" /\ text.list = <<>>

\* A 404 for cached alice/repo1 whose list is R, b, s/d/a, s/m: four files
\* beside directories, and 'R' before 'b'.
C7_Witness ==
  /\ result[Turn].tool_name = "get_file_content"
  /\ result[Turn].answers = <<404>>
  /\ LastInput(Turn) = <<"alice", "repo1">>
  /\ <<"alice", "repo1">> \in DOMAIN repos_cache[Turn].at
  /\ repos_cache[Turn].at[<<"alice", "repo1">>].dir_count = 3
  /\ result[Turn].text.list = <<<<82>>, <<98>>, <<115, 47, 100, 47, 97>>, <<115, 47, 109>>>>

\* C8: list_repo_files makes its request exactly when the cache is empty or
\* the name is a cached key; otherwise it makes none and returns the cached
\* keys.
C8_ListingCallsRemoteUnlessTypo ==
  \A p \in Procs :
    result[p].tool_name = "list_repo_files" =>
      LET cache == repos_cache[p]
          calls == cache.keys = <<>> \/ LastInput(p) \in Range(cache.keys)
      IN /\ (result[p].remote_calls > 0) <=> calls
         /\ calls => result[p].remote_calls = 1 /\ Len(result[p].answers) = 1
         /\ ~calls => /\ result[p].remote_calls = 0
                      /\ result[p].answers = <<>>
                      /\ result[p].text.kind = "not_in_cache"
                      /\ result[p].text.list = cache.keys

\* A typo against a cache of two repositories: no request, both keys returned.
C8_Witness ==
  /\ result[Turn].tool_name = "list_repo_files"
  /\ LastInput(Turn) = <<"alice", "typo">>
  /\ result[Turn].remote_calls = 0
  /\ result[Turn].text.list = <<<<"alice", "repo1">>, <<"alice", "repo2">>>>

\* ------------------------------------------------------------- claims: updated_at
\* C11: every save committed on a session leaves the session's updated_at
\* later than it was before the save.
C11_UpdatedAtAdvances ==
  [][\A p \in Procs :
       SaveCommit(p) =>
         LET s == txn[p].session_id IN
           (s \in DOMAIN session_chat /\ txn[p].updated) =>
             StrLess(session_chat[s].updated_at, session_chat'[s].updated_at)]_vars

\* ------------------------------------------------------------- claims: errors of remote actions
\* C12: whenever a request of a remote action got no answer (a network or
\* timeout failure), that request was the action's last one and the text
\* returned to the agent is the connectivity error.
C12_NetworkFailureIsConnectivityError ==
  \A p \in Procs :
    LET r == result[p] IN
      (\E i \in DOMAIN r.answers : r.answers[i] = NoAnswer) =>
        /\ r.text.kind = "connection_error"
        /\ r.answers[Len(r.answers)] = NoAnswer
        /\ \A i \in 1..(Len(r.answers) - 1) : r.answers[i] # NoAnswer
        /\ r.remote_calls = Len(r.answers)

\* ------------------------------------------------------------- claims: the request
\* The turns a request wrote to the turn log.
TurnsOf(p) == {r \in conversation : r.user_query = user_query(p)}

\* The request's agent invocation ran to completion.
AgentCompleted(p) ==
  \/ request[p].stage \in {"completed", "saving"}
  \/ request[p].stage = "responded" /\ request[p].raised.at \in {"", "save_conversation"}

\* C13: a request with a missing, malformed or rejected credential is answered
\* 401, and only a request that failed internally is answered 500.
C13_CredentialErrorsAre401 ==
  \A p \in Procs :
    request[p].stage = "responded" =>
      /\ request[p].credential \in {"missing", "malformed", "rejected"} =>
           request[p].response.status_code = 401
      /\ request[p].response.status_code = 500 =>
           request[p].credential \notin {"missing", "malformed", "rejected"}

\* C14: a request whose save raised is answered 500, and a request is answered
\* success only when its turn is committed to the turn log and to its session's
\* history.
C14_StoreErrorFailsTheTurn ==
  \A p \in Procs :
    request[p].stage = "responded" =>
      /\ request[p].raised.at = "save_conversation" =>
           request[p].response.status_code = 500 /\ request[p].response.status # "success"
      /\ request[p].response.status = "success" <=> request[p].response.status_code = 200
      /\ request[p].response.status_code = 200 =>
           /\ \E r \in TurnsOf(p) :
                r.conv_id = request[p].response.conv_id /\ r.session_id = request[p].session_id
           /\ request[p].session_id \in DOMAIN session_chat
           /\ request[p].response.conv_id \in DOMAIN session_chat[request[p].session_id].history

\* A save that failed on a session that exists: the turn is answered 500 and
\* nothing of it is in the log.
C14_Witness ==
  \E p \in Procs :
    /\ request[p].stage = "responded"
    /\ request[p].raised.at = "save_conversation"
    /\ request[p].session_id \in DOMAIN session_chat
    /\ request[p].response.status_code = 500
    /\ TurnsOf(p) = {}

C17_ExactlyOneTurnPerCompletedRun ==
  \A p \in Procs :
    request[p].stage = "responded" =>
      Cardinality(TurnsOf(p)) = IF AgentCompleted(p) THEN 1 ELSE 0

\* C17 amended: a request never has two turns in the log; an answered request
\* has one exactly when it is answered success, none when its save failed; a
\* request whose agent invocation did not complete has none.
C17_AtMostOneTurnOneIffSuccess ==
  \A p \in Procs :
    /\ Cardinality(TurnsOf(p)) <= 1
    /\ ~AgentCompleted(p) => TurnsOf(p) = {}
    /\ request[p].stage = "responded" =>
         (Cardinality(TurnsOf(p)) = 1 <=> request[p].response.status_code = 200)

\* Both requests are answered after their agents completed: one saved its
\* turn, the other's save failed.
C17_Witness ==
  \E p, q \in Procs :
    /\ request[p].stage = "responded" /\ request[q].stage = "responded"
    /\ AgentCompleted(p) /\ AgentCompleted(q)
    /\ Cardinality(TurnsOf(p)) = 1 /\ request[p].response.status_code = 200
    /\ TurnsOf(q) = {} /\ request[q].response.status_code = 500

\* C19: a request's context starts with an empty audit trail and an empty
\* cache, and a step that writes to one request's trail or cache leaves every
\* other request's trail and cache as they were.
C19_ContextsAreNotShared ==
  [][\A p \in Procs :
       /\ (request[p].stage = "ensured" /\ request'[p].stage = "context") =>
            tool_executions'[p] = <<>> /\ repos_cache'[p] = EmptyCache
       /\ (tool_executions'[p] # tool_executions[p] \/ repos_cache'[p] # repos_cache[p]) =>
            \A q \in Procs \ {p} :
              tool_executions'[q] = tool_executions[q] /\ repos_cache'[q] = repos_cache[q]]_vars

\* Two requests of the same session run side by side: one has two records and
\* a cached repository, the other's agent runs on an empty context.
C19_Witness ==
  \E p, q \in Procs :
    /\ request[p].stage = "running" /\ request[q].stage = "running"
    /\ request[p].session_id = "s1" /\ request[q].session_id = "s1"
    /\ Len(tool_executions[p]) = 2 /\ repos_cache[p].keys # <<>>
    /\ tool_executions[q] = <<>> /\ repos_cache[q] = EmptyCache

\* The mapping tr holds the records of the audit trail ex: one key per
\* record, "tool_<idx>" bound to the record at position idx (from 0).
MapsTrail(tr, ex) ==
  /\ DOMAIN tr = {ToolKey(idx) : idx \in 0..(Len(ex) - 1)}
  /\ \A idx \in 0..(Len(ex) - 1) : tr[ToolKey(idx)] = ex[idx + 1]

\* C20: the tool_responses mapping of a persisted turn, in the response, in
\* the turn log and in the session history, has one key per audit-trail
\* record, the key of the record at position idx being "tool_" + idx and its
\* value that record.
C20_ToolResponsesMirrorTrail ==
  \A p \in Procs :
    (request[p].stage = "responded" /\ request[p].response.status_code = 200) =>
      /\ MapsTrail(request[p].response.tools_responses, tool_executions[p])
      /\ \A r \in TurnsOf(p) : MapsTrail(r.assistant_output.tools_responses, tool_executions[p])
      /\ \A s \in DOMAIN session_chat :
           request[p].response.conv_id \in DOMAIN session_chat[s].history =>
             MapsTrail(session_chat[s].history[request[p].response.conv_id]
                         .assistant_output.tools_responses,
                       tool_executions[p])

\* A persisted turn with two different records: get_user_info, then
\* cache_repo_structure.
C20_Witness ==
  \E p \in Procs :
    /\ request[p].stage = "responded" /\ request[p].response.status_code = 200
    /\ TurnsOf(p) # {}
    /\ request[p].response.conv_id \in DOMAIN session_chat[request[p].session_id].history
    /\ Len(tool_executions[p]) = 2
    /\ tool_executions[p][1].tool_name = "get_user_info"
    /\ tool_executions[p][2].tool_name = "cache_repo_structure"

\* ------------------------------------------------------------- claims: failures of the store
\* C15: the only step of a save that changes the turn log or a session row is
\* its commit; the step on which a save fails, wherever it is (no pool, the
\* insert, the merge, the commit), leaves both tables as they were, discards
\* the save's pending writes and locks, and hands the caller an error.
C15_FailedSaveChangesNothing ==
  [][\A p \in Procs :
       /\ (pc'[p] # pc[p] /\ ~(pc[p] = "updated" /\ ret'.ok)) =>
            conversation' = conversation /\ session_chat' = session_chat
       /\ (SaveFail(p) \/ SaveNoPool(p) \/ (SaveInsert(p) /\ pc'[p] = "idle")) =>
            /\ conversation' = conversation /\ session_chat' = session_chat
            /\ txn'[p] = NoTxn
            /\ \A s \in Sessions : row_lock'[s] # p
            /\ ret'.op = "save_conversation" /\ ret'.worker = p
            /\ ~ret'.ok /\ ret'.conv_id = 0]_vars

\* A save has just failed while another worker's save is past its merge and
\* an earlier turn is in the log: that turn is still there.
C15_Witness ==
  /\ ret.op = "save_conversation" /\ ~ret.ok /\ ret.note = ""
  /\ connection_pool
  /\ conversation # {}
  /\ \E q \in Procs : q # ret.worker /\ pc[q] = "updated"

\* C18: after a store operation has ended, as many connections are checked
\* out of the pool as before it began.
C18_ConnectionsReleased ==
  pool_call.op # "none" => used = pool_call.before

\* ------------------------------------------------------------- claims: the tree walk
\* The path lies below directory D ('D/...'); everything lies below the root.
Below(path, D) ==
  IF D = <<>> THEN TRUE
  ELSE Len(path) > Len(D) /\ SubSeq(path, 1, Len(D) + 1) = D \o <<47>>

\* The directory a path is listed in: the path up to its last '/'.
ParentOf(path) ==
  LET slashes == {i \in DOMAIN path : path[i] = 47} IN
    IF slashes = {} THEN <<>>
    ELSE SubSeq(path, 1, (CHOOSE i \in slashes : \A j \in slashes : j <= i) - 1)

\* The place of a path in the remote's listing of its directory.
ListingIndex(tree, path) ==
  CHOOSE i \in DOMAIN tree[ParentOf(path)] : tree[ParentOf(path)][i].path = path

\* The files and directories of a repository on the remote.
RemoteEntries(tree) ==
  {e \in UNION {Range(tree[d]) : d \in DOMAIN tree} : e.type \in {"file", "dir"}}

\* The path lies below a directory whose listing fails.
CutOff(path, failing) == \E D \in failing : Below(path, D)

\* The paths of a snapshot's entries.
PathsOf(files) == {files[i].path : i \in DOMAIN files}

\* C21: in every stored snapshot the entries below a directory are the block
\* that starts right after the directory's own entry (the directory precedes
\* its descendants, and they all precede its next sibling), and the entries of
\* one directory are in the order of the remote's listing.
C21_SnapshotIsPreOrder ==
  \A p \in Procs :
    \A k \in DOMAIN repos_cache[p].at :
      LET f == repos_cache[p].at[k].files IN
        /\ \A i \in DOMAIN f :
             f[i].type = "dir" =>
               LET below == {j \in DOMAIN f : Below(f[j].path, f[i].path)}
               IN below = (i + 1)..(i + Cardinality(below))
        /\ \A i, j \in DOMAIN f :
             (i < j /\ ParentOf(f[i].path) = ParentOf(f[j].path)) =>
               ListingIndex(RemoteTree(k), f[i].path) < ListingIndex(RemoteTree(k), f[j].path)

\* alice/repo1 walked whole: b, s, s/m, s/d, s/d/a, s/d/e, s/d/e/x, R.
C21_Witness ==
  /\ <<"alice", "repo1">> \in DOMAIN repos_cache[Turn].at
  /\ LET f == repos_cache[Turn].at[<<"alice", "repo1">>].files IN
       /\ Len(f) = 8
       /\ f[2].path = <<115>> /\ f[7].path = <<115, 47, 100, 47, 101, 47, 120>>
       /\ f[8].path = <<82>>

\* C22: a named build in which the listings `failing` fail still stores a
\* snapshot and tracks the success text; the snapshot holds exactly the
\* remote's entries that are not below a failed directory: the failed
\* directory's own entry, its siblings and the rest of the tree are kept,
\* nothing below it is.
C22_FailedListingTruncatesSubtree ==
  [][\A p \in Procs, repo_name \in RepoArgs :
       Invoke(p, "cache_repo_structure") =>
       \A cached_at \in Clock, failing \in SUBSET DOMAIN RemoteTree(full_repo_name(repo_name)) :
       CacheNamedRepo(p, repo_name, cached_at, failing) =>
         LET full_name == full_repo_name(repo_name)
             remote == RemoteEntries(RemoteTree(full_name))
         IN /\ full_name \in DOMAIN repos_cache'[p].at
            /\ result'[p].text.kind = "cached_repo"
            /\ Len(tool_executions'[p]) = Len(tool_executions[p]) + 1
            /\ PathsOf(repos_cache'[p].at[full_name].files)
                 = {e.path : e \in {x \in remote : ~CutOff(x.path, failing)}}]_vars

\* alice/repo1 built while the listing of s/d failed: b, s, s/m, s/d, R.
C22_Witness ==
  /\ <<"alice", "repo1">> \in DOMAIN repos_cache[Turn].at
  /\ LET f == repos_cache[Turn].at[<<"alice", "repo1">>].files IN
       /\ Len(f) = 5
       /\ f[4].path = <<115, 47, 100>> /\ f[4].type = "dir"
       /\ f[5].path = <<82>>

\* C23: a named build of F leaves the snapshot of every other key as it was
\* and adds no key but F; the snapshot under F afterwards holds only entries
\* this build fetched, each once; a build of all repositories leaves the keys
\* it did not enumerate as they were.
C23_CacheWriteReplacesSnapshot ==
  [][/\ \A p \in Procs, repo_name \in RepoArgs :
          Invoke(p, "cache_repo_structure") =>
          \A cached_at \in Clock, failing \in SUBSET DOMAIN RemoteTree(full_repo_name(repo_name)) :
          CacheNamedRepo(p, repo_name, cached_at, failing) =>
            LET full_name == full_repo_name(repo_name)
                old == repos_cache[p]
                new == repos_cache'[p]
                files == new.at[full_name].files
            IN /\ DOMAIN new.at = DOMAIN old.at \cup {full_name}
               /\ \A k \in DOMAIN old.at \ {full_name} : new.at[k] = old.at[k]
               /\ \A i \in DOMAIN files : ~CutOff(files[i].path, failing)
               /\ Len(files) = Cardinality(PathsOf(files))
               /\ new.at[full_name].cached_at = cached_at
     /\ \A p \in Procs :
          \A k \in DOMAIN repos_cache[p].at :
            /\ k \in DOMAIN repos_cache'[p].at
            /\ k \notin Range(ReposWithSlash(RemoteRepos)) \cup {full_repo_name(rn) : rn \in RepoArgs}
                 => repos_cache'[p].at[k] = repos_cache[p].at[k]]_vars

\* A build of all repositories stored alice/repo1 with four of its files and
\* alice/repo2 with its two; then alice/repo1 was built again with its root listing
\* failed: its snapshot is empty, alice/repo2's is as it was.
C23_Witness ==
  /\ Len(tool_executions[Turn]) = 2
  /\ tool_executions[Turn][1].input = NoRepo
  /\ tool_executions[Turn][1].output.files = 6
  /\ tool_executions[Turn][2].input = <<"alice", "repo1">>
  /\ repos_cache[Turn].at[<<"alice", "repo1">>].files = <<>>
  /\ repos_cache[Turn].at[<<"alice", "repo2">>].file_count = 2

\* The repositories a build of all repositories enumerated and built.
BuiltBy(r) == IF r.answers = <<200>> THEN ReposWithSlash(RemoteRepos) ELSE <<>>

\* C24: the totals a build of all repositories reports are the sums of
\* file_count and dir_count over the snapshots of the repositories the call
\* enumerated and built.
C24_TotalsSumBuiltSnapshots ==
  \A p \in Procs :
    (result[p].tool_name = "cache_repo_structure" /\ result[p].text.kind = "cached_all") =>
      /\ result[p].text.files = SumOver(repos_cache[p], BuiltBy(result[p]), "file_count")
      /\ result[p].text.dirs = SumOver(repos_cache[p], BuiltBy(result[p]), "dir_count")

\* C30: a named build whose root listing fails, or whose repository the
\* remote does not know, stores under the full name a snapshot with no
\* entries and zero counts and tracks the success text; the name is then a
\* cached key: the listing guard lets it through and the 404 text of
\* get_file_content is the one with the (empty) list of cached paths.
C30_FailedRootStoresEmptySnapshot ==
  [][\A p \in Procs, repo_name \in RepoArgs :
       Invoke(p, "cache_repo_structure") =>
       \A cached_at \in Clock, failing \in SUBSET DOMAIN RemoteTree(full_repo_name(repo_name)) :
       (/\ <<>> \in failing \/ RemoteTree(full_repo_name(repo_name)) = EmptyMap
        /\ CacheNamedRepo(p, repo_name, cached_at, failing)) =>
         LET full_name == full_repo_name(repo_name)
             new == repos_cache'[p]
             record == tool_executions'[p][Len(tool_executions'[p])]
         IN /\ full_name \in DOMAIN new.at /\ full_name \in Range(new.keys)
            /\ new.at[full_name].files = <<>>
            /\ new.at[full_name].file_count = 0 /\ new.at[full_name].dir_count = 0
            /\ Len(tool_executions'[p]) = Len(tool_executions[p]) + 1
            /\ record.tool_name = "cache_repo_structure"
            /\ record.output.kind = "cached_repo"
            /\ record.output.files = 0 /\ record.output.dirs = 0 /\ record.output.count = 0
            /\ ~CacheGuardRejects(new, full_name)
            /\ NotFoundText(new, full_name, ShortLen).kind = "not_found_with_paths"
            /\ NotFoundText(new, full_name, ShortLen).list = <<>>]_vars

\* alice/typo, which the remote does not know, was built and is a cached key
\* with no entries: the 404 of get_file_content for it lists no paths.
C30_Witness ==
  /\ Len(tool_executions[Turn]) = 2
  /\ tool_executions[Turn][1].tool_name = "cache_repo_structure"
  /\ tool_executions[Turn][1].input = <<"alice", "typo">>
  /\ tool_executions[Turn][1].output.kind = "cached_repo"
  /\ repos_cache[Turn].keys = <<<<"alice", "typo">>>>
  /\ repos_cache[Turn].at[<<"alice", "typo">>].files = <<>>
  /\ result[Turn].tool_name = "get_file_content"
  /\ LastInput(Turn) = <<"alice", "typo">>
  /\ result[Turn].text.kind = "not_found_with_paths"
  /\ result[Turn].text.list = <<>>

\* ------------------------------------------------------------- claims: answers of the remote
\* C26: a remote action whose last request was answered 401 returns the
\* authentication-failure text.
C26_UnauthorizedIsAuthFailure ==
  \A p \in Procs :
    LET r == result[p] IN
      (r.answers # <<>> /\ r.answers[Len(r.answers)] = 401) => r.text.kind = "auth_failed"

\* C25: for a 422 answer to create_repo, create_pull_request or create_branch
\* the text is the specific conflict text exactly when the body's error list
\* holds the operation's signature (for a branch: the body says the reference
\* already exists); for every other 422 it is the body's message passed
\* through. create_branch does not read the body: its step is the same
\* whatever the remote sent.
C25_ConflictMessageIffSignature ==
  [][\A p \in Procs, body \in Bodies :
       /\ (Invoke(p, "create_repo") /\ CreateRepoAnswered(p, 422, body)) =>
            IF \E i \in DOMAIN body.errors : body.errors[i] = "name already exists on this account"
            THEN result'[p].text.kind = "repo_exists"
            ELSE /\ result'[p].text.kind = "validation_message"
                 /\ body.message \in Range(result'[p].text.list)
       /\ \A rn \in RepoArgs :
            (Invoke(p, "create_pull_request") /\ CreatePullRequestAnswered(p, rn, 422, body)) =>
              IF \E i \in DOMAIN body.errors :
                   body.errors[i] \in {"A pull request already exists for alice:dev.",
                                       "No commits between main and dev"}
              THEN result'[p].text.kind \in {"pr_exists", "no_commits"}
              ELSE /\ result'[p].text.kind = "validation_message"
                   /\ body.message \in Range(result'[p].text.list)
       /\ (/\ Invoke(p, "create_branch")
           /\ result'[p].tool_name = "create_branch"
           /\ result'[p].answers = <<200, 422>>) =>
            IF body.message = "Reference already exists"
            THEN result'[p].text.kind = "branch_exists"
            ELSE /\ result'[p].text.kind = "validation_message"
                 /\ body.message \in Range(result'[p].text.list)]_vars

\* ------------------------------------------------------------- claims: timeouts
\* The last request of the running agent's last tool call got no answer.
TimedOut(p) ==
  /\ request[p].stage = "running"
  /\ result[p].answers # <<>>
  /\ result[p].answers[Len(result[p].answers)] = NoAnswer

C29_ConcurrentSavesBothKept ==
  /\ \A p \in Procs :
       (pc[p] = "updated" /\ txn[p].updated /\ txn[p].session_id \in DOMAIN session_chat) =>
         LET s == txn[p].session_id
             h == session_chat[s].history
             n == txn[p].new_row.history
         IN /\ row_lock[s] = p
            /\ \A k \in DOMAIN h : k \in DOMAIN n /\ n[k] = h[k]
            /\ txn[p].conv_id \in DOMAIN n
  /\ \A i, j \in 1..Len(returned) :
       (i # j /\ returned[i][1] = returned[j][1] /\ returned[i][1] \in DOMAIN session_chat) =>
         {returned[i][2], returned[j][2]} \subseteq DOMAIN session_chat[returned[i][1]].history

\* Two saves on one session overlap: one has merged its turn and holds the
\* row, the other has inserted its turn and waits for the row.
C29_Witness ==
  \E p, q \in Procs :
    /\ p # q
    /\ pc[p] = "updated" /\ txn[p].updated
    /\ pc[q] = "inserted" /\ txn[q].inserted
    /\ txn[q].session_id = txn[p].session_id
    /\ row_lock[txn[p].session_id] = p
    /\ ~ENABLED SaveUpdate(q)
====
